---- MODULE Spec2Model ----
(***************************************************************************)
(* Bulk query runner of the recipe chatbot (scripts/bulk_test.py).         *)
(*                                                                         *)
(* One run of run_bulk_test: read_queries filters the rows of the input    *)
(* file, a ThreadPoolExecutor of min(num_workers, len(queries)) threads    *)
(* maps process_query over the kept rows, the results are collected in     *)
(* submission order, rendered to the console and written by write_results  *)
(* as a JSON file and a CSV file.                                          *)
(***************************************************************************)
EXTENDS Integers, Sequences, FiniteSets, TLC

\* ------------------------------------------------------------------ bounds

\* Longest input file, in data rows.
MaxRows == 3

\* ------------------------------------------------------------------ values

\* A row of csv.DictReader is a dict; a key that is absent, or whose value is
\* None, is a key outside the row's domain here.
RowUniverse ==
    { [id |-> "1", query |-> "a"],
      [id |-> "2", query |-> "b"],
      [id |-> "",  query |-> "a"],
      [id |-> "1", query |-> ""],
      [id |-> "2"],
      [query |-> "b"] }

RECURSIVE SeqsUpTo(_, _)
SeqsUpTo(S, n) ==
    IF n = 0 THEN { <<>> }
    ELSE LET shorter == SeqsUpTo(S, n - 1)
         IN  shorter \cup { Append(s, x) : s \in { t \in shorter : Len(t) = n - 1 }, x \in S }

InputFiles == SeqsUpTo(RowUniverse, MaxRows)

\* The --workers values tried: negative, zero, and from one worker up to one
\* per row of the longest file.
Budgets == -1 .. MaxRows

Min(a, b) == IF a <= b THEN a ELSE b

\* Python truthiness of row.get(key): None and "" are false.
RowGetTruthy(row, key) == key \in DOMAIN row /\ row[key] # ""

\* ------------------------------------------------------------ read_queries

KeepRowEitherField(row) == RowGetTruthy(row, "id") \/ RowGetTruthy(row, "query")

\* The filter of the list comprehension: row.get("id") and row.get("query").
KeepRow(row) == RowGetTruthy(row, "id") /\ RowGetTruthy(row, "query")

\* [row for row in reader if ...]: the rows are visited in file order and the
\* kept ones appended.
RECURSIVE read_queries(_)
read_queries(rows) ==
    IF rows = <<>> THEN <<>>
    ELSE LET rest == read_queries(Tail(rows))
         IN  IF KeepRow(Head(rows)) THEN <<Head(rows)>> \o rest ELSE rest

\* ----------------------------------------------------------- process_query

Turn(role, content) == [role |-> role, content |-> content]

\* initial_messages = [{"role": "user", "content": query}]
InitialMessages(query) == << Turn("user", query) >>

\* What get_agent_response may return for a conversation: the conversation
\* extended by the assistant's reply, the conversation unchanged (its last turn
\* is the user's), an assistant reply followed by a further non-assistant turn,
\* or no turns at all.
ReplyTo(messages) == "recipe for " \o messages[Len(messages)].content

AdapterConversations(messages) ==
    { messages \o << Turn("assistant", ReplyTo(messages)) >>,
      messages,
      messages \o << Turn("assistant", "draft"), Turn("system", "cut off") >>,
      messages \o << Turn("assistant", "draft"), Turn("assistant", ReplyTo(messages)) >>,
      <<>> }

\* The fault a configured adapter may raise on a call (network, quota).
CallFaults == { [type |-> "ConnectionError", arg |-> "down"] }

\* The fault every call raises when the adapter's configuration is absent.
ConfigFault == [type |-> "AuthenticationError", arg |-> "api key"]

\* The faults get_agent_response may raise, as exception objects.
AdapterFaults == CallFaults \cup { ConfigFault }

\* The classes derived from Exception among the faults of the model.
ExceptionClasses ==
    { "ConnectionError", "AuthenticationError", "ValueError", "OSError", "UnicodeEncodeError" }

\* How a call of a configured adapter may end.
AdapterOutcomes(messages) ==
    { [kind |-> "return", history |-> h] : h \in AdapterConversations(messages) }
      \cup { [kind |-> "raise", exc |-> e] : e \in CallFaults }

\* How a call of an adapter without configuration ends.
UnconfiguredOutcomes == { [kind |-> "raise", exc |-> ConfigFault] }

\* repr() of an exception object: Type('arg').
Repr(e) == e.type \o "('" \o e.arg \o "')"

NoReplySentinel == "Error: No assistant reply found"

\* The response, were the first assistant turn taken for the reply.
ResponseOfFirstAssistantTurn(updated_history) ==
    LET at == { k \in 1 .. Len(updated_history) : updated_history[k].role = "assistant" }
    IN  IF at # {}
        THEN updated_history[CHOOSE k \in at : \A j \in at : k <= j].content
        ELSE NoReplySentinel

\* The response, were the latest assistant turn taken wherever it stands.
ResponseOfLatestAssistantTurn(updated_history) ==
    LET at == { k \in 1 .. Len(updated_history) : updated_history[k].role = "assistant" }
    IN  IF at # {}
        THEN updated_history[CHOOSE k \in at : \A j \in at : j <= k].content
        ELSE NoReplySentinel

\* The response, were the last turn read without testing for an empty
\* history: indexing raises IndexError, which the except clause describes.
ResponseOfUnguarded(updated_history) ==
    IF updated_history = <<>>
    THEN "Error: " \o Repr([type |-> "IndexError", arg |-> "list index out of range"])
    ELSE IF updated_history[Len(updated_history)].role = "assistant"
         THEN updated_history[Len(updated_history)].content
         ELSE NoReplySentinel

\* Lines 58-61: the response read off the history the adapter returned.
ResponseOf(updated_history) ==
    IF updated_history # <<>> /\ updated_history[Len(updated_history)].role = "assistant"
    THEN updated_history[Len(updated_history)].content
    ELSE NoReplySentinel

\* An except clause that names one class: except ValueError.
CaughtOnlyValueError(e) == e.type = "ValueError"

\* Line 65: except Exception.

Caught(e) == e.type \in ExceptionClasses

\* process_query, were the except clause to return the fault's description in
\* place of the query.
process_query_fault_in_query_field(query_id, query, outcome) ==
    IF outcome.kind = "return"
    THEN [raised |-> FALSE, value |-> << query_id, query, ResponseOf(outcome.history) >>]
    ELSE [raised |-> FALSE,
          value |-> << query_id, Repr(outcome.exc), "Error: " \o Repr(outcome.exc) >>]

\* process_query(query_id, query) when the adapter call ends with `outcome`:
\* either the returned tuple, or the exception that leaves the function.
process_query(query_id, query, outcome) ==
    IF outcome.kind = "return"
    THEN [raised |-> FALSE, value |-> << query_id, query, ResponseOf(outcome.history) >>]
    ELSE IF Caught(outcome.exc)
         THEN [raised |-> FALSE,
               value |-> << query_id, query, "Error: " \o Repr(outcome.exc) >>]
         ELSE [raised |-> TRUE, exc |-> outcome.exc]

\* ----------------------------------------------------------- write_results

\* Lines 91-94 with the fields taken from the wrong tuple positions.
json_data_swapped(results) ==
    [ i \in 1 .. Len(results) |->
        [id |-> results[i][1], query |-> results[i][3], response |-> results[i][2]] ]

\* Lines 91-94: one {"id", "query", "response"} object per result tuple.
json_data(results) ==
    [ i \in 1 .. Len(results) |->
        [id |-> results[i][1], query |-> results[i][2], response |-> results[i][3]] ]

\* Lines 101-104: the header row, then one row per result tuple.
csv_rows(results) == << << "id", "query", "response" >> >> \o results

NoFile == [exists |-> FALSE, data |-> <<>>]

File(data) == [exists |-> TRUE, data |-> data]

\* Where write_results goes after the JSON write when a failed write is
\* swallowed instead of raised.
AfterJsonWriteSwallowing(ok) == "csv"

\* Lines 96-99: the with block either completes, and the CSV write follows, or
\* raises out of write_results.
AfterJsonWrite(ok) == IF ok THEN "csv" ELSE "failed"

\* ------------------------------------------------------------ run_bulk_test

\* Ticks of the wall clock in one second.
TicksPerSecond == 2

\* The last tick of the wall clock looked at.
MaxTicks == 5

\* The runs that write into the same results directory.
Runs == { 1, 2 }

\* The batch each of those runs has assembled when it reaches line 131.
BatchOf(run) ==
    IF run = 1 THEN << << "1", "a", "recipe for a" >> >>
    ELSE << << "2", "b", "recipe for b" >>, << "1", "a", "Error: ConnectionError('down')" >> >>

\* Line 131: strftime("%Y%m%d_%H%M%S") keeps the date and the time down to
\* the second and drops the rest.
strftime(t) == t \div TicksPerSecond

\* Line 132: RESULTS_DIR / f"results_{timestamp}.json".
OutputPath(timestamp) == [dir |-> "results", stamp |-> timestamp, suffix |-> ".json"]

\* Line 99: output_path.with_suffix(".csv").
WithSuffixCsv(path) == [path EXCEPT !.suffix = ".csv"]

NoPath == [dir |-> "", stamp |-> -1, suffix |-> ""]

\* The paths a run may write.
Paths ==
    { [dir |-> "results", stamp |-> s, suffix |-> x] : s \in 0 .. MaxTicks, x \in { ".json", ".csv" } }

ActualWorkersIgnoringBudget(budget, n) == n

\* actual_workers, were a budget below one raised to one worker.
ActualWorkersAtLeastOne(budget, n) == IF budget < 1 THEN Min(1, n) ELSE Min(budget, n)

\* Line 116: actual_workers = min(num_workers, len(queries)).
ActualWorkers(budget, n) == Min(budget, n)

\* The futures whose result the collecting loop may take next, were results
\* taken as they complete.
NextFutureAsCompleted(yielded, completed) ==
    completed \ { yielded[j] : j \in 1 .. Len(yielded) }

\* Lines 121-124: list(executor.map(...)) takes the futures' results in the
\* order of submission, waiting for the next one to complete.
NextFuture(yielded, completed) == { Len(yielded) + 1 } \cap completed

\* The collecting loop, were it to stop at the first result.
ListCompleteAtFirstResult(yielded, n) == Len(yielded) >= 1

\* Lines 121-124: list(...) ends when the result iterator is exhausted, after
\* the result of every submitted future.
ListComplete(yielded, n) == Len(yielded) = n

NoFault == [type |-> "none", arg |-> ""]

\* The faults raised outside process_query, named by the path or stream that
\* fails.
ReadFault == [type |-> "OSError", arg |-> "queries.csv"]

PoolFault == [type |-> "ValueError", arg |-> "max_workers must be greater than 0"]

RenderFault == [type |-> "UnicodeEncodeError", arg |-> "console"]

MkdirFault == [type |-> "OSError", arg |-> "results"]

JsonFault == [type |-> "OSError", arg |-> "results.json"]

CsvFault == [type |-> "OSError", arg |-> "results.csv"]

VARIABLES
    pc,              \* position of the main thread in run_bulk_test
    input_file,      \* the data rows of the file at csv_path
    num_workers,     \* the worker budget (--workers)
    adapter_configured,  \* whether the adapter has its credentials and model
    queries,         \* read_queries(csv_path)
    actual_workers,  \* max_workers of the executor
    submitted,       \* work items submitted by executor.map so far
    work_queue,      \* the executor's queue of work items not yet taken
    threads,         \* worker threads of the executor
    in_flight,       \* work items inside process_query, awaiting the adapter
    messages,        \* per work item, the conversation passed to the adapter
    calls,           \* per work item, the number of adapter invocations
    futures,         \* per work item, its future: pending or the outcome
    yielded,         \* the futures whose results were collected, in order
    results,         \* the list built from executor.map
    rendered,        \* results printed by print_result so far
    attempted,       \* the writes write_results has started
    json_file,       \* the file at output_path
    csv_file,        \* the file at output_path.with_suffix(".csv")
    fault,           \* the exception that left run_bulk_test, if any
    now,             \* the wall clock, in ticks
    run_pc,          \* per run sharing the results directory, its position
    output_path,     \* per such run, its output_path once line 132 has run
    disk             \* the files of the results directory, by path

\* The variables of the runs that share one results directory.
stampVars == << now, run_pc, output_path, disk >>

vars == << pc, input_file, num_workers, adapter_configured, stampVars, queries, actual_workers, submitted, work_queue,
           threads, in_flight, messages, calls, futures, yielded,
           results, rendered, attempted, json_file, csv_file, fault >>

poolVars == << submitted, work_queue, threads, in_flight, messages,
               calls, futures >>

sinkVars == << attempted, json_file, csv_file >>

Pending == [state |-> "pending"]

Completed == { i \in DOMAIN futures : futures[i].state # "pending" }

Init ==
    /\ pc = "start"
    /\ input_file \in InputFiles
    /\ num_workers \in Budgets
    /\ adapter_configured \in BOOLEAN
    /\ queries = <<>>
    /\ actual_workers = 0
    /\ submitted = 0
    /\ work_queue = <<>>
    /\ threads = 0
    /\ in_flight = {}
    /\ messages = <<>>
    /\ calls = <<>>
    /\ futures = <<>>
    /\ yielded = <<>>
    /\ results = <<>>
    /\ rendered = 0
    /\ attempted = {}
    /\ json_file = NoFile
    /\ csv_file = NoFile
    /\ fault = NoFault
    /\ now = 0
    /\ run_pc = [ r \in Runs |-> "rendered" ]
    /\ output_path = [ r \in Runs |-> NoPath ]
    /\ disk = [ p \in Paths |-> NoFile ]

Raise(e) == pc' = "failed" /\ fault' = e

\* Lines 115-116: queries = read_queries(csv_path); actual_workers = min(...).
ReadQueries ==
    /\ pc = "start"
    /\ queries' = read_queries(input_file)
    /\ actual_workers' = ActualWorkers(num_workers, Len(queries'))
    /\ messages' = [ i \in 1 .. Len(queries') |-> <<>> ]
    /\ calls' = [ i \in 1 .. Len(queries') |-> 0 ]
    /\ futures' = [ i \in 1 .. Len(queries') |-> Pending ]
    /\ pc' = "pool"
    /\ UNCHANGED << input_file, num_workers, adapter_configured, stampVars, submitted, work_queue, threads,
                    in_flight, yielded, results, rendered, fault >>
    /\ UNCHANGED sinkVars

\* Line 45: csv_path.open raises (the file is missing or unreadable).
ReadQueriesFails ==
    /\ pc = "start"
    /\ Raise(ReadFault)
    /\ UNCHANGED << input_file, num_workers, adapter_configured, stampVars, queries, actual_workers, yielded, results,
                    rendered >>
    /\ UNCHANGED poolVars
    /\ UNCHANGED sinkVars

\* Line 120: ThreadPoolExecutor(max_workers=actual_workers) raises ValueError
\* when max_workers <= 0.
CreatePool ==
    /\ pc = "pool"
    /\ IF actual_workers <= 0
       THEN Raise(PoolFault)
       ELSE pc' = "submit" /\ fault' = fault
    /\ UNCHANGED << input_file, num_workers, adapter_configured, stampVars, queries, actual_workers, yielded, results,
                    rendered >>
    /\ UNCHANGED poolVars
    /\ UNCHANGED sinkVars

\* Lines 121-124, executor.map: one submit per query, in order. A submit
\* queues the work item and starts a thread unless max_workers threads exist
\* or the executor counts a worker as idle (which it may do, depending on the
\* interpreter version, whenever a worker exists).
Submit ==
    /\ pc = "submit"
    /\ submitted < Len(queries)
    /\ submitted' = submitted + 1
    /\ work_queue' = Append(work_queue, submitted + 1)
    /\ threads' \in (IF threads < actual_workers THEN { threads + 1 } ELSE {})
                      \cup (IF threads >= 1 THEN { threads } ELSE {})
    /\ pc' = IF submitted' = Len(queries) THEN "collect" ELSE "submit"
    /\ UNCHANGED << input_file, num_workers, adapter_configured, stampVars, queries, actual_workers, in_flight, messages,
                    calls, futures, yielded, results, rendered, fault >>
    /\ UNCHANGED sinkVars

\* A worker taking a work item, were the conversation one list kept across
\* dispatches: each dispatch appends its user turn to what the one before sent.
WorkerTakeSharedConversation ==
    /\ work_queue # <<>>
    /\ Cardinality(in_flight) < threads
    /\ LET i == Head(work_queue)
           before == IF i > 1 THEN messages[i - 1] ELSE <<>>
       IN  /\ work_queue' = Tail(work_queue)
           /\ in_flight' = in_flight \cup {i}
           /\ messages' = [messages EXCEPT ![i] = before \o InitialMessages(queries[i].query)]
           /\ calls' = [calls EXCEPT ![i] = @ + 1]
    /\ UNCHANGED << pc, input_file, num_workers, adapter_configured, stampVars, queries, actual_workers, submitted,
                    threads, futures, yielded, results, rendered, fault >>
    /\ UNCHANGED sinkVars

\* A worker thread that is not running a work item takes the next one off the
\* queue and enters process_query: lines 55-56 build the conversation and
\* invoke the adapter.
WorkerTake ==
    /\ work_queue # <<>>
    /\ Cardinality(in_flight) < threads
    /\ LET i == Head(work_queue)
       IN  /\ work_queue' = Tail(work_queue)
           /\ in_flight' = in_flight \cup {i}
           /\ messages' = [messages EXCEPT ![i] = InitialMessages(queries[i].query)]
           /\ calls' = [calls EXCEPT ![i] = @ + 1]
    /\ UNCHANGED << pc, input_file, num_workers, adapter_configured, stampVars, queries, actual_workers, submitted,
                    threads, futures, yielded, results, rendered, fault >>
    /\ UNCHANGED sinkVars

\* The end of an adapter call, were process_query to call the adapter once
\* more after a fault before giving up.
AdapterCompletesWithRetry(i, outcome) ==
    /\ i \in in_flight
    /\ IF outcome.kind = "raise" /\ calls[i] < 2
       THEN /\ calls' = [calls EXCEPT ![i] = @ + 1]
            /\ UNCHANGED << futures, in_flight >>
       ELSE /\ futures' = [futures EXCEPT ![i] =
                    [state |-> "result",
                     value |-> process_query(queries[i].id, queries[i].query, outcome).value]]
            /\ in_flight' = in_flight \ {i}
            /\ calls' = calls
    /\ UNCHANGED << pc, input_file, num_workers, adapter_configured, stampVars, queries, actual_workers, submitted,
                    work_queue, threads, messages, yielded, results, rendered,
                    fault >>
    /\ UNCHANGED sinkVars

\* The adapter call of work item i ends (it returns a conversation or raises);
\* process_query finishes, the future is set and the worker is free again.
AdapterCompletes(i, outcome) ==
    /\ i \in in_flight
    /\ LET r == process_query(queries[i].id, queries[i].query, outcome)
       IN  futures' = [futures EXCEPT ![i] =
                         IF r.raised THEN [state |-> "exception", exc |-> r.exc]
                         ELSE [state |-> "result", value |-> r.value]]
    /\ in_flight' = in_flight \ {i}
    /\ UNCHANGED << pc, input_file, num_workers, adapter_configured, stampVars, queries, actual_workers, submitted,
                    work_queue, threads, messages, calls, yielded, results, rendered,
                    fault >>
    /\ UNCHANGED sinkVars

\* list(...) over the result iterator: the next future's result is appended,
\* or its exception raised. The with block ends once the list is complete.
Collect ==
    /\ pc = "collect"
    /\ \E k \in NextFuture(yielded, Completed) :
         /\ yielded' = Append(yielded, k)
         /\ IF futures[k].state = "exception"
            THEN /\ Raise(futures[k].exc)
                 /\ results' = results
            ELSE /\ results' = Append(results, futures[k].value)
                 /\ pc' = IF ListComplete(yielded', Len(queries)) THEN "shutdown" ELSE "collect"
                 /\ fault' = fault
    /\ UNCHANGED << input_file, num_workers, adapter_configured, stampVars, queries, actual_workers, rendered >>
    /\ UNCHANGED poolVars
    /\ UNCHANGED sinkVars

\* Leaving the with block: shutdown(wait=True) joins the worker threads.
Shutdown ==
    /\ pc = "shutdown"
    /\ work_queue = <<>>
    /\ in_flight = {}
    /\ threads' = 0
    /\ pc' = "render"
    /\ UNCHANGED << input_file, num_workers, adapter_configured, stampVars, queries, actual_workers, submitted,
                    work_queue, in_flight, messages, calls, futures, yielded, results,
                    rendered, fault >>
    /\ UNCHANGED sinkVars

\* Lines 126-127: print_result for the next result, in list order.
Render ==
    /\ pc = "render"
    /\ rendered < Len(results)
    /\ rendered' = rendered + 1
    /\ UNCHANGED << pc, input_file, num_workers, adapter_configured, stampVars, queries, actual_workers, yielded,
                    results, fault >>
    /\ UNCHANGED poolVars
    /\ UNCHANGED sinkVars

\* Lines 76-82: building or printing the panel of the next result raises (the
\* console cannot encode the response).
RenderFails ==
    /\ pc = "render"
    /\ rendered < Len(results)
    /\ Raise(RenderFault)
    /\ UNCHANGED << input_file, num_workers, adapter_configured, stampVars, queries, actual_workers, yielded, results,
                    rendered >>
    /\ UNCHANGED poolVars
    /\ UNCHANGED sinkVars

\* The call of write_results, were the batch saved before it is printed.
CallWriteResultsBeforeRendering ==
    /\ pc = "render"
    /\ rendered = 0
    /\ pc' = "mkdir"
    /\ UNCHANGED << input_file, num_workers, adapter_configured, stampVars, queries,
                    actual_workers, yielded, results, rendered, fault >>
    /\ UNCHANGED poolVars
    /\ UNCHANGED sinkVars

\* Lines 129-134: every result is printed; write_results is called.
CallWriteResults ==
    /\ pc = "render"
    /\ rendered = Len(results)
    /\ pc' = "mkdir"
    /\ UNCHANGED << input_file, num_workers, adapter_configured, stampVars, queries, actual_workers, yielded, results,
                    rendered, fault >>
    /\ UNCHANGED poolVars
    /\ UNCHANGED sinkVars

\* Line 89: output_path.parent.mkdir(parents=True, exist_ok=True).
Mkdir ==
    /\ pc = "mkdir"
    /\ \E ok \in BOOLEAN :
         IF ok THEN pc' = "json" /\ fault' = fault
         ELSE Raise(MkdirFault)
    /\ UNCHANGED << input_file, num_workers, adapter_configured, stampVars, queries, actual_workers, yielded, results,
                    rendered >>
    /\ UNCHANGED poolVars
    /\ UNCHANGED sinkVars

\* Lines 96-97: the JSON file is opened and json_data dumped into it.
WriteJson ==
    /\ pc = "json"
    /\ attempted' = attempted \cup {"json"}
    /\ \E ok \in BOOLEAN :
         /\ json_file' = IF ok THEN File(json_data(results)) ELSE json_file
         /\ fault' = IF ok THEN fault ELSE JsonFault
         /\ pc' = AfterJsonWrite(ok)
    /\ UNCHANGED << input_file, num_workers, adapter_configured, stampVars, queries, actual_workers, yielded, results,
                    rendered, csv_file >>
    /\ UNCHANGED poolVars

\* The CSV write, were write_results to remove the JSON file when it fails.
WriteCsvWithRollback ==
    /\ pc = "csv"
    /\ attempted' = attempted \cup {"csv"}
    /\ \E ok \in BOOLEAN :
         /\ csv_file' = IF ok THEN File(csv_rows(results)) ELSE csv_file
         /\ json_file' = IF ok THEN json_file ELSE NoFile
         /\ fault' = IF ok THEN fault ELSE CsvFault
         /\ pc' = IF ok THEN "done" ELSE "failed"
    /\ UNCHANGED << input_file, num_workers, adapter_configured, stampVars, queries, actual_workers,
                    yielded, results, rendered >>
    /\ UNCHANGED poolVars

\* Lines 99-104: the CSV file is opened, the header and the rows written.
WriteCsv ==
    /\ pc = "csv"
    /\ attempted' = attempted \cup {"csv"}
    /\ \E ok \in BOOLEAN :
         /\ csv_file' = IF ok THEN File(csv_rows(results)) ELSE csv_file
         /\ fault' = IF ok THEN fault ELSE CsvFault
         /\ pc' = IF ok THEN "done" ELSE "failed"
    /\ UNCHANGED << input_file, num_workers, adapter_configured, stampVars, queries, actual_workers, yielded, results,
                    rendered, json_file >>
    /\ UNCHANGED poolVars

AdapterStep ==
    \E i \in in_flight :
        \E outcome \in (IF adapter_configured THEN AdapterOutcomes(messages[i])
                                              ELSE UnconfiguredOutcomes) :
            AdapterCompletes(i, outcome)

MainThread ==
    \/ ReadQueries
    \/ ReadQueriesFails
    \/ CreatePool
    \/ Submit
    \/ Collect
    \/ Shutdown
    \/ Render
    \/ RenderFails
    \/ CallWriteResults
    \/ Mkdir
    \/ WriteJson
    \/ WriteCsv

Next ==
    \/ ReadQueries
    \/ ReadQueriesFails
    \/ CreatePool
    \/ Submit
    \/ WorkerTake
    \/ AdapterStep
    \/ Collect
    \/ Shutdown
    \/ Render
    \/ RenderFails
    \/ CallWriteResults
    \/ Mkdir
    \/ WriteJson
    \/ WriteCsv

Spec == Init /\ [][Next]_vars

\* The rows of the input files scheduled fairly: the complete rows and one
\* row the reader drops.  The pool sees only the rows that are kept, so files
\* differing in which incomplete rows they hold are scheduled alike.
FairRows == { r \in RowUniverse : KeepRow(r) \/ r = [id |-> "", query |-> "a"] }

FairInit == Init /\ \A k \in DOMAIN input_file : input_file[k] \in FairRows

\* The main thread keeps running while it can, a free worker thread takes
\* queued work, and every adapter call ends.
FairSpec ==
    /\ FairInit
    /\ [][Next]_vars
    /\ WF_vars(MainThread)
    /\ WF_vars(WorkerTake)
    /\ WF_vars(AdapterStep)

\* ------------------------------------------- runs sharing a results directory

\* Each run has its batch and has printed it; the clock runs.
StampInit ==
    /\ Init
    /\ input_file = <<>>
    /\ num_workers = 1
    /\ adapter_configured

oneRunVars == << pc, input_file, num_workers, adapter_configured, queries, actual_workers,
                submitted, work_queue, threads, in_flight, messages, calls, futures,
                yielded, results, rendered, attempted, json_file, csv_file, fault >>

\* The wall clock advances by one tick.
Tick ==
    /\ now < MaxTicks
    /\ now' = now + 1
    /\ UNCHANGED << run_pc, output_path, disk >>
    /\ UNCHANGED oneRunVars

\* Lines 131-132 of run r: the clock is read and output_path built from it.
Stamp(r) ==
    /\ run_pc[r] = "rendered"
    /\ output_path' = [output_path EXCEPT ![r] = OutputPath(strftime(now))]
    /\ run_pc' = [run_pc EXCEPT ![r] = "json"]
    /\ UNCHANGED << now, disk >>
    /\ UNCHANGED oneRunVars

\* Lines 96-97 of run r: output_path is opened for writing, which empties a
\* file already there, and the batch dumped into it.
WriteJsonOf(r) ==
    /\ run_pc[r] = "json"
    /\ disk' = [disk EXCEPT ![output_path[r]] = File(json_data(BatchOf(r)))]
    /\ run_pc' = [run_pc EXCEPT ![r] = "csv"]
    /\ UNCHANGED << now, output_path >>
    /\ UNCHANGED oneRunVars

\* Lines 99-104 of run r: the same for the CSV file.
WriteCsvOf(r) ==
    /\ run_pc[r] = "csv"
    /\ disk' = [disk EXCEPT ![WithSuffixCsv(output_path[r])] = File(csv_rows(BatchOf(r)))]
    /\ run_pc' = [run_pc EXCEPT ![r] = "done"]
    /\ UNCHANGED << now, output_path >>
    /\ UNCHANGED oneRunVars

StampNext ==
    \/ Tick
    \/ \E r \in Runs : Stamp(r)
    \/ \E r \in Runs : WriteJsonOf(r)
    \/ \E r \in Runs : WriteCsvOf(r)

StampSpec == StampInit /\ [][StampNext]_vars

\* ================================================================ properties

StartsWithError(response) == Len(response) >= 6 /\ SubSeq(response, 1, 6) = "Error:"

\* The input file was read: run_bulk_test is past line 115.
ReadDone == pc # "start" /\ fault # ReadFault

\* executor.map has handed over every result and the with block is left.
MapReturned ==
    \/ pc \in { "shutdown", "render", "mkdir", "json", "csv", "done" }
    \/ pc = "failed" /\ fault \in { RenderFault, MkdirFault, JsonFault, CsvFault }

\* write_results has been entered.
SinkReached ==
    \/ pc \in { "mkdir", "json", "csv", "done" }
    \/ pc = "failed" /\ fault \in { MkdirFault, JsonFault, CsvFault }

TotalCalls == Cardinality({ i \in DOMAIN calls : calls[i] >= 1 })

\* C1: whatever the worker budget and the order in which the dispatches complete
\* or fail, the results collected so far sit at the positions of their input
\* records, and once the map has returned the batch is as long as the input
\* and the result at index i carries the id of input record i.
C1_BatchAlignedWithInput ==
    /\ Len(results) <= Len(queries)
    /\ \A i \in 1 .. Len(results) : results[i][1] = queries[i].id
    /\ MapReturned => Len(results) = Len(queries)

\* A full batch of three whose second dispatch failed and whose ids differ.
C1_Witness ==
    /\ MapReturned
    /\ Len(results) = 3
    /\ results[1][1] # results[2][1]
    /\ results[2][3] = "Error: ConnectionError('down')"
    /\ ~StartsWithError(results[3][3])

\* C2: with no query record the runner returns an empty batch, creates no
\* worker, invokes the adapter zero times, and does not fail.
C2_EmptyInputReturnsEmptyBatch ==
    (ReadDone /\ queries = <<>>) =>
        /\ fault # PoolFault
        /\ threads = 0
        /\ TotalCalls = 0

\* C3: a dispatch whose adapter call raises ends with a result whose response
\* starts with "Error:"; the step changes no sibling's future, nothing the main
\* thread holds, and no adapter fault ever leaves run_bulk_test.
C3_FaultIsolatedPerRecord ==
    [][ /\ \A i \in in_flight : \A e \in AdapterFaults :
             AdapterCompletes(i, [kind |-> "raise", exc |-> e]) =>
                 /\ futures'[i].state = "result"
                 /\ StartsWithError(futures'[i].value[3])
                 /\ \A j \in DOMAIN futures : j # i => futures'[j] = futures[j]
                 /\ results' = results
                 /\ pc' = pc
                 /\ fault' = fault
        /\ fault' \notin AdapterFaults
        /\ \A i \in DOMAIN futures : futures'[i].state # "exception" ]_vars

\* One dispatch has failed and been recorded while a sibling dispatched in the
\* same pool holds the agent's reply.
C3_Witness ==
    /\ Len(queries) >= 2
    /\ futures[1].state = "result"
    /\ futures[1].value[3] = "Error: ConnectionError('down')"
    /\ futures[2].state = "result"
    /\ futures[2].value[3] = "recipe for b"

\* The adapter call of work item i returns the conversation h.
AdapterReturns(i, h) == AdapterCompletes(i, [kind |-> "return", history |-> h])

\* C4: a dispatch whose adapter returns a conversation whose final turn is not
\* an assistant turn ends with exactly the sentinel response.
C4_NonAssistantFinalTurnGivesSentinel ==
    [][ \A i \in in_flight : \A h \in AdapterConversations(messages[i]) :
          (AdapterReturns(i, h) /\ h # <<>> /\ h[Len(h)].role # "assistant") =>
              /\ futures'[i].state = "result"
              /\ futures'[i].value[3] = "Error: No assistant reply found" ]_vars

\* A record whose dispatch ended with the sentinel response, collected.
C4_Witness ==
    /\ MapReturned
    /\ \E i \in 1 .. Len(results) : results[i][3] = "Error: No assistant reply found"

\* C5: a dispatch whose adapter returns a conversation whose final turn is an
\* assistant turn ends with exactly that turn's content as its response.
C5_AssistantFinalTurnGivesItsContent ==
    [][ \A i \in in_flight : \A h \in AdapterConversations(messages[i]) :
          (AdapterReturns(i, h) /\ h # <<>> /\ h[Len(h)].role = "assistant") =>
              /\ futures'[i].state = "result"
              /\ futures'[i].value[3] = h[Len(h)].content ]_vars

\* A record whose dispatch ended with the agent's reply, collected.
C5_Witness ==
    /\ MapReturned
    /\ \E i \in 1 .. Len(results) : results[i][3] = "recipe for " \o queries[i].query

\* C6: with a positive worker budget the dispatches in flight never number
\* more than min(worker budget, number of records); without one there is none.
C6_InFlightWithinBudget ==
    /\ Cardinality(in_flight) <= threads
    /\ Cardinality(in_flight) <=
         (IF num_workers >= 1 THEN Min(num_workers, Len(queries)) ELSE 0)

\* The pool is saturated at a budget below the record count, with work waiting.
C6_Witness ==
    /\ num_workers = 2
    /\ Len(queries) = 3
    /\ Cardinality(in_flight) = 2
    /\ work_queue # <<>>

\* A row counts as complete when both fields are present and non-empty.
HasIdAndQuery(row) ==
    /\ { "id", "query" } \subseteq DOMAIN row
    /\ Len(row.id) > 0
    /\ Len(row.query) > 0

\* C7: read_queries returns exactly the rows with a non-empty id and a
\* non-empty query, in file order; only those rows are ever dispatched, each at
\* most once, and when the map has returned the adapter has been invoked once
\* per kept row.
C7_ReaderKeepsCompleteRows ==
    /\ pc = "start" => TotalCalls = 0
    /\ ReadDone =>
         /\ queries = SelectSeq(input_file, HasIdAndQuery)
         /\ DOMAIN calls = 1 .. Len(queries)
         /\ \A i \in DOMAIN calls : calls[i] <= 1
    /\ MapReturned => TotalCalls = Len(SelectSeq(input_file, HasIdAndQuery))

\* A file of three rows of which the middle one is dropped, run to the end.
C7_Witness ==
    /\ pc = "done"
    /\ Len(input_file) = 3
    /\ ~HasIdAndQuery(input_file[2])
    /\ Len(queries) = 2
    /\ TotalCalls = 2

\* The triples read back from the structured-record artifact.
ReadBack(file) ==
    [ i \in 1 .. Len(file.data) |->
        << file.data[i].id, file.data[i].query, file.data[i].response >> ]

\* C8: once write_results has completed, the structured-record artifact read
\* back gives the batch's triples in batch order, and the tabular artifact
\* holds the header row followed by the same triples in the same order.
C8_ArtifactsHoldTheBatch ==
    pc = "done" =>
        /\ json_file.exists
        /\ ReadBack(json_file) = results
        /\ csv_file.exists
        /\ Len(csv_file.data) = Len(results) + 1
        /\ csv_file.data[1] = << "id", "query", "response" >>
        /\ \A i \in 1 .. Len(results) : csv_file.data[i + 1] = results[i]

\* Both artifacts written for a batch of two records with different outcomes.
C8_Witness ==
    /\ pc = "done"
    /\ Len(results) = 2
    /\ results[1][3] # results[2][3]

\* C9 as stated: a failure writing one artifact does not prevent the write of
\* the other from being attempted, so a run that failed inside a write has
\* attempted both.
C9_WritesIndependent ==
    (pc = "failed" /\ fault \in { JsonFault, CsvFault }) => attempted = { "json", "csv" }

\* C9 as amended: the writes are sequential, the structured-record artifact
\* first. A failure writing it leaves write_results at once and the tabular
\* write is never attempted; the tabular write is attempted only after the
\* structured-record artifact is written, and its failure leaves that artifact
\* in place.
C9_WritesSequential ==
    /\ fault = JsonFault =>
         /\ pc = "failed"
         /\ attempted = { "json" }
         /\ ~json_file.exists
         /\ ~csv_file.exists
    /\ "csv" \in attempted =>
         /\ "json" \in attempted
         /\ json_file.exists
         /\ ReadBack(json_file) = results
    /\ fault = CsvFault => pc = "failed" /\ attempted = { "json", "csv" }

\* The structured-record write of a non-empty batch has failed.
C9_Witness ==
    /\ fault = JsonFault
    /\ results # <<>>

\* The run of a non-empty input under a positive budget, at line 120.
DispatchStarts == pc = "pool" /\ queries # <<>> /\ num_workers >= 1

AllDispatchesCompleted ==
    /\ submitted = Len(queries)
    /\ work_queue = <<>>
    /\ in_flight = {}
    /\ \A i \in DOMAIN futures : futures[i].state # "pending"

\* C11: the batch is assembled, the runner left and the Result Sink started
\* only when every dispatch has completed; until the batch is assembled
\* nothing is rendered and no write is attempted.
C11_NoReturnWhileDispatchPending ==
    /\ MapReturned => AllDispatchesCompleted
    /\ (attempted # {} \/ json_file.exists \/ csv_file.exists) => AllDispatchesCompleted
    /\ ~AllDispatchesCompleted => (rendered = 0 /\ pc \in { "start", "pool", "submit", "collect", "failed" })

\* The first result was collected while a later dispatch is still in flight
\* and another still queued: the main thread waits.
C11_Witness ==
    /\ pc = "collect"
    /\ Len(results) = 1
    /\ in_flight # {}
    /\ work_queue # <<>>

\* C12: the adapter is invoked exactly once for each query record. A dispatch
\* in flight or completed has been invoked once; once a dispatch is recorded,
\* failed or not, its future and its invocation count never change again; and
\* when the map has returned every record has been invoked exactly once.
C12_ExactlyOneInvocationPerRecord ==
    [][ /\ DOMAIN calls' = 1 .. Len(queries')
        /\ \A i \in DOMAIN calls' :
             /\ calls'[i] <= 1
             /\ (i \in in_flight' \/ futures'[i].state # "pending") => calls'[i] = 1
        /\ \A i \in DOMAIN futures :
             futures[i].state # "pending" =>
                 (futures'[i] = futures[i] /\ calls'[i] = calls[i])
        /\ MapReturned' => \A i \in 1 .. Len(queries') : calls'[i] = 1 ]_vars

\* Three records under a budget of two, the second of which failed, all
\* collected, each invoked once.
C12_Witness ==
    /\ MapReturned
    /\ num_workers = 2
    /\ Len(queries) = 3
    /\ results[2][3] = "Error: ConnectionError('down')"
    /\ \A i \in 1 .. 3 : calls[i] = 1

\* The responses a dispatch can end with when it sees nothing but its own
\* record: the agent's reply to that record's query, the sentinel, or the
\* description of a fault.
OwnResponses(record) ==
    { "recipe for " \o record.query, "Error: No assistant reply found" }
      \cup { "Error: " \o e.type \o "('" \o e.arg \o "')" : e \in AdapterFaults }

\* C13: every adapter invocation receives a conversation of exactly one user
\* turn holding that record's query, whatever the other dispatches have sent
\* or received, and every dispatch ends with a response to its own record.
C13_OneFreshUserTurnPerInvocation ==
    \A i \in DOMAIN messages :
        /\ calls[i] = 0 => messages[i] = <<>>
        /\ calls[i] >= 1 =>
             /\ Len(messages[i]) = 1
             /\ messages[i][1] = [role |-> "user", content |-> queries[i].query]
        /\ futures[i].state = "result" => futures[i].value[3] \in OwnResponses(queries[i])

\* Two dispatches with different queries are in flight at once, after an
\* earlier one was answered.
C13_Witness ==
    /\ Len(queries) = 3
    /\ futures[1].state = "result"
    /\ futures[1].value[3] = "recipe for a"
    /\ in_flight = { 2, 3 }
    /\ queries[2].query # queries[3].query

\* C14: whatever the outcome of a dispatch, its result record carries the id
\* and the query of its input record; the record is collected as it is, and
\* each artifact written holds, at the record's position, that id, that query
\* and the response the dispatch ended with.
C14_IdAndQueryCarriedUnchanged ==
    /\ \A i \in DOMAIN futures :
         futures[i].state = "result" =>
             /\ futures[i].value[1] = queries[i].id
             /\ futures[i].value[2] = queries[i].query
    /\ \A i \in 1 .. Len(results) : results[i] = futures[i].value
    /\ json_file.exists =>
         /\ Len(json_file.data) = Len(queries)
         /\ \A i \in 1 .. Len(queries) :
              json_file.data[i] = [id |-> queries[i].id, query |-> queries[i].query,
                                   response |-> futures[i].value[3]]
    /\ csv_file.exists =>
         /\ Len(csv_file.data) = Len(queries) + 1
         /\ \A i \in 1 .. Len(queries) :
              csv_file.data[i + 1] = << queries[i].id, queries[i].query, futures[i].value[3] >>

\* A batch holding a reply, a sentinel and a captured fault, written to both
\* artifacts.
C14_Witness ==
    /\ pc = "done"
    /\ Len(results) = 3
    /\ results[1][3] = "recipe for " \o queries[1].query
    /\ results[2][3] = "Error: No assistant reply found"
    /\ results[3][3] = "Error: ConnectionError('down')"

\* The faults that end the run before write_results has started a write.
FaultsBeforeWrites == { ReadFault, PoolFault, RenderFault, MkdirFault }

\* What holds of every fault raised outside the dispatches: it ends the run,
\* and one raised before the writes leaves no artifact.
SystemicFaultsEndTheRun ==
    /\ (pc = "failed") <=> (fault # NoFault)
    /\ fault \in { NoFault, JsonFault, CsvFault } \cup FaultsBeforeWrites
    /\ fault \in FaultsBeforeWrites =>
         /\ attempted = {}
         /\ ~json_file.exists
         /\ ~csv_file.exists

C16_JsonFirstNoRollback ==
    /\ pc = "csv" => (attempted = { "json" } /\ json_file.exists /\ ~csv_file.exists)
    /\ csv_file.exists => json_file.exists
    /\ fault = CsvFault =>
         /\ pc = "failed"
         /\ json_file.exists
         /\ Len(json_file.data) = Len(queries)
         /\ \A i \in 1 .. Len(queries) :
              /\ json_file.data[i].id = results[i][1]
              /\ json_file.data[i].query = results[i][2]
              /\ json_file.data[i].response = results[i][3]

\* The tabular write of a batch of two has failed after the structured-record
\* artifact was written.
C16_Witness ==
    /\ fault = CsvFault
    /\ Len(results) = 2
    /\ json_file.exists

\* C17: two distinct runs never write their artifacts to the same output
\* path, so the artifacts a run has written stay as it wrote them when
\* another run writes its own.
C17_RunsNeverShareOutputPath ==
    /\ \A r1, r2 \in Runs :
         (r1 # r2 /\ output_path[r1] # NoPath /\ output_path[r2] # NoPath) =>
             output_path[r1] # output_path[r2]
    /\ \A r \in Runs :
         run_pc[r] = "done" =>
             /\ disk[output_path[r]] = File(json_data(BatchOf(r)))
             /\ disk[WithSuffixCsv(output_path[r])] = File(csv_rows(BatchOf(r)))

\* C18: with a non-empty input and a worker budget of zero or less,
\* run_bulk_test fails creating the worker pool: no thread is started, the
\* adapter is never invoked, nothing is collected or rendered and no artifact
\* is written.
C18_NonPositiveBudgetFailsAtPool ==
    (ReadDone /\ queries # <<>> /\ num_workers <= 0) =>
        /\ pc \in { "pool", "failed" }
        /\ pc = "failed" => fault = PoolFault
        /\ threads = 0
        /\ submitted = 0
        /\ TotalCalls = 0
        /\ results = <<>>
        /\ rendered = 0
        /\ attempted = {}
        /\ ~json_file.exists
        /\ ~csv_file.exists

\* A run of two records with --workers -1 has failed creating the pool.
C18_Witness ==
    /\ num_workers = -1
    /\ Len(queries) = 2
    /\ pc = "failed"
    /\ fault = PoolFault

\* C19: results are rendered only after every dispatch has completed, one
\* after the other in list order, and all of them before write_results is
\* entered; a fault raised while rendering ends the run with the Sink never
\* entered and no artifact written.
C19_RenderedBeforeAnyWrite ==
    [][ /\ rendered' \in { rendered, rendered + 1 }
        /\ rendered' # rendered => (pc = "render" /\ AllDispatchesCompleted)
        /\ rendered' <= Len(results')
        /\ SinkReached' => rendered' = Len(results')
        /\ fault' = RenderFault =>
             /\ pc' = "failed"
             /\ rendered' < Len(results')
             /\ attempted' = {}
             /\ ~json_file'.exists
             /\ ~csv_file'.exists ]_vars

\* Rendering the second of three results has raised.
C19_Witness ==
    /\ fault = RenderFault
    /\ Len(results) = 3
    /\ rendered = 1

\* C20: a dispatch whose adapter returns no turns at all ends with the
\* sentinel response; process_query does not raise and the response is not
\* the description of a fault.
C20_EmptyConversationGivesSentinel ==
    [][ \A i \in in_flight :
          AdapterReturns(i, <<>>) =>
              /\ futures'[i].state = "result"
              /\ futures'[i].value[3] = "Error: No assistant reply found"
              /\ fault' = fault
              /\ pc' = pc ]_vars

\* Every dispatch of a batch of two ended with the sentinel.
C20_Witness ==
    /\ adapter_configured
    /\ Len(queries) = 2
    /\ \A i \in 1 .. 2 :
         futures[i].state = "result" /\ futures[i].value[3] = "Error: No assistant reply found"

====
